---- MODULE Spec2Model ----
(***************************************************************************)
(* Model of the 9layer batch analysis orchestrator                         *)
(* (src/analysis/pipeline.py, src/analysis/storage.py,                     *)
(* src/analysis/metadata.py).                                              *)
(*                                                                         *)
(* The Result Store and the Failure Ledger are the two PostgreSQL tables   *)
(* track_audio_analysis and track_analysis_failures, modelled as sets of   *)
(* rows.  CURRENT_TIMESTAMP is the logical clock `now`, which advances     *)
(* with every statement that writes a ledger row.                          *)
(***************************************************************************)
EXTENDS Integers, Sequences, FiniteSets, TLC

\* ------------------------------------------------------------------ bounds
MaxRuns == 2
BatchSize == 2
MaxWorkers == 2
MaxCalls == 5
FixedLimit == 1
MaxRetries == 1

\* ------------------------------------------------------------- vocabulary
None == "None"   \* an absent string
NoNum == -1      \* an absent number

Version == "essentia-1"

\* The version of records written before ANALYSIS_VERSION was raised.
OldVersion == "essentia-0"

NotAvailableMsg == "Essentia is not available. Install essentia and essentia-tensorflow."
ExtractionMsg == "extraction error"
FileNotFoundMsg == "File not found"

\* The tracks table: A, B and C have a file path, D has an empty one, and the
\* id X has no row at all.
Catalog ==
    [A |-> [filePath |-> "/m/a", updatedAt |-> 1],
     B |-> [filePath |-> "/m/b", updatedAt |-> 2],
     C |-> [filePath |-> "/m/c", updatedAt |-> 3],
     D |-> [filePath |-> "", updatedAt |-> 4]]

Items == DOMAIN Catalog

TrackIds == Items \cup {"X"}

VARIABLES
    failures,     \* rows of track_analysis_failures
    analyses,     \* rows of track_audio_analysis
    now,          \* CURRENT_TIMESTAMP
    pc,           \* position of the coordinator: idle, seq, par, closing, done, raised
    op,           \* the public operation of the current run
    tracks,       \* the work set of the current run (list of TrackForAnalysis)
    summary,      \* the BatchSummary of the current run
    idx,          \* next item of the sequential loop
    pool,         \* self._pool: number of workers of the pool, 0 when None
    futures,      \* state of each submitted future: pending, running, finished
    results,      \* result or exception held by each finished future
    handled,      \* classification of each task once the coordinator handled it
    adapter,      \* per worker process: is _WORKER_ADAPTER set
    built,        \* per worker process: number of EssentiaAdapter constructions
    busy,         \* per worker process: the task it runs, 0 when idle
    essentia,     \* is essentia importable in this run's processes (es is not None)
    cond,         \* per task: what the environment did to it, once it has run
    recCalls,     \* per task: record_failure calls made for it in this run
    lastOutcome,  \* per item: its most recent outcome other than a skip
    stored,       \* per item: the engine result last saved, and how many times in a row
    runs,         \* number of runs started
    calls,        \* number of direct store calls made (store-level specification)
    args,         \* the arguments of the public operation of the current run
    conn,         \* per database connection: its position inside record_failure
    settings      \* max_workers and os.cpu_count() of the current run, when recorded

storeVars == <<failures, analyses, now>>
runVars == <<pc, op, tracks, summary, idx, pool, futures, results, handled,
             adapter, built, busy, essentia, cond, recCalls, runs>>
vars == <<failures, analyses, now, pc, op, tracks, summary, idx, pool, futures,
          results, handled, adapter, built, busy, essentia, cond, recCalls,
          lastOutcome, stored, runs, calls, args, conn, settings>>

\* =====================================================================
\* metadata.py
\* =====================================================================

\* TrackAnalysisResult as the engine builds it, reduced to the identity, the
\* version and one descriptor of each conversion shape.
TrackAnalysisResult(t, v, tempo, dance, year, decade, summ) ==
    [track_id |-> t, analysis_version |-> v, tempo_bpm |-> tempo,
     danceability |-> dance, composition_year |-> year,
     composition_decade |-> decade, summary |-> summ]

to_storage_payload(r) ==
    LET decade == IF r.composition_decade = NoNum /\ r.composition_year # NoNum
                  THEN (r.composition_year \div 10) * 10
                  ELSE r.composition_decade
    IN [r EXCEPT !.composition_decade = decade]

\* Python truthiness of an optional number and of an optional string.
TruthyNum(x) == x # NoNum /\ x # 0

TruthyStr(x) == x # None /\ x # ""

from_storage_payload(p) ==
    TrackAnalysisResult(
        p.track_id,
        p.analysis_version,
        IF p.tempo_bpm # NoNum THEN p.tempo_bpm ELSE NoNum,
        NoNum,
        IF TruthyNum(p.composition_year) THEN p.composition_year ELSE NoNum,
        IF TruthyNum(p.composition_decade) THEN p.composition_decade ELSE NoNum,
        IF TruthyStr(p.summary) THEN p.summary ELSE None)

\* =====================================================================
\* storage.py
\* =====================================================================

\* Column defaults of track_analysis_failures.
RetryCountDefault == 0
ResolvedDefault == FALSE

FailureRow(t, path, err, ts) ==
    [trackId |-> t, filePath |-> path, error |-> err,
     retryCount |-> RetryCountDefault, occurredAt |-> ts,
     resolved |-> ResolvedDefault]

\* The unique index on "trackId": the INSERT raises IntegrityError when a row
\* of that track exists.
IntegrityError(rows, t) == \E r \in rows : r.trackId = t

\* The UPDATE without "retryCount" = "retryCount" + 1.
UpdateFailureNoIncrement(rows, t, path, err, ts) ==
    {IF r.trackId = t
     THEN [r EXCEPT !.filePath = IF path # None THEN path ELSE r.filePath,
                    !.error = err,
                    !.occurredAt = ts,
                    !.resolved = FALSE]
     ELSE r : r \in rows}

UpdateFailure(rows, t, path, err, ts) ==
    {IF r.trackId = t
     THEN [r EXCEPT !.filePath = IF path # None THEN path ELSE r.filePath,
                    !.error = err,
                    !.retryCount = r.retryCount + 1,
                    !.occurredAt = ts,
                    !.resolved = FALSE]
     ELSE r : r \in rows}

record_failure(rows, t, path, err, ts) ==
    IF IntegrityError(rows, t)
    THEN UpdateFailure(rows, t, path, err, ts)
    ELSE rows \cup {FailureRow(t, path, err, ts)}

\* A resolve that also resets the retry history.
resolve_failure_reset(rows, t, ts) ==
    {IF r.trackId = t
     THEN [r EXCEPT !.resolved = TRUE, !.occurredAt = ts, !.retryCount = 0]
     ELSE r : r \in rows}

\* A resolve that clears the ledger entry instead of flagging it.
resolve_failure_delete(rows, t, ts) == {r \in rows : r.trackId # t}

\* A resolve whose UPDATE has no WHERE "trackId" = ... clause.
resolve_failure_all(rows, t, ts) ==
    {[r EXCEPT !.resolved = TRUE, !.occurredAt = ts] : r \in rows}

resolve_failure(rows, t, ts) ==
    {IF r.trackId = t
     THEN [r EXCEPT !.resolved = TRUE, !.occurredAt = ts]
     ELSE r : r \in rows}

AnalysisRow(p) ==
    [trackId |-> p.track_id, analysisVersion |-> p.analysis_version,
     tempoBpm |-> p.tempo_bpm, danceability |-> p.danceability,
     compositionYear |-> p.composition_year,
     compositionDecade |-> p.composition_decade, summary |-> p.summary]

\* A plain INSERT on a table without the conflict clause.
InsertAnalysis(rows, p) == rows \cup {AnalysisRow(p)}

\* A statement that stores nothing.
UpsertNothing(rows, p) == rows

\* An upsert whose DO UPDATE SET lists the version and the tempo only.
UpsertAnalysisPartial(rows, p) ==
    IF \E r \in rows : r.trackId = p.track_id
    THEN {IF r.trackId = p.track_id
          THEN [r EXCEPT !.analysisVersion = p.analysis_version,
                         !.tempoBpm = p.tempo_bpm]
          ELSE r : r \in rows}
    ELSE rows \cup {AnalysisRow(p)}

\* INSERT ... ON CONFLICT ("trackId") DO UPDATE SET every column.
UpsertAnalysis(rows, p) ==
    IF \E r \in rows : r.trackId = p.track_id
    THEN {IF r.trackId = p.track_id THEN AnalysisRow(p) ELSE r : r \in rows}
    ELSE rows \cup {AnalysisRow(p)}

\* Does a ledger statement for track t write a row (and so take a timestamp).
Touches(rows, t) == \E r \in rows : r.trackId = t

\* save_analysis: the upsert, then resolve_failure.  The store is the record
\* [failures, analyses, now].
save_analysis(st, result) ==
    LET p == to_storage_payload(result)
        hit == Touches(st.failures, p.track_id)
    IN [failures |-> resolve_failure(st.failures, p.track_id, st.now),
        analyses |-> UpsertAnalysis(st.analyses, p),
        now |-> IF hit THEN st.now + 1 ELSE st.now]

Store == [failures |-> failures, analyses |-> analyses, now |-> now]

\* A store-level record_failure / resolve_failure call, with its timestamp.
StoreRecordFailure(st, t, path, err) ==
    [st EXCEPT !.failures = record_failure(st.failures, t, path, err, st.now),
               !.now = st.now + 1]

StoreResolveFailure(st, t) ==
    [st EXCEPT !.failures = resolve_failure(st.failures, t, st.now),
               !.now = IF Touches(st.failures, t) THEN st.now + 1 ELSE st.now]

TrackForAnalysis(t, path) == [track_id |-> t, file_path |-> path]

\* ORDER BY key: the rows of S as a list of ascending key (keys are distinct).
RECURSIVE OrderBy(_, _)
OrderBy(S, key) ==
    IF S = {} THEN <<>>
    ELSE LET first == CHOOSE r \in S : \A q \in S : key[r] <= key[q]
         IN <<first>> \o OrderBy(S \ {first}, key)

\* LIMIT n.
Limit(seq, n) == SubSeq(seq, 1, IF Len(seq) < n THEN Len(seq) ELSE n)

\* The query without the OR aa."analysisVersion" <> %(version)s disjunct.
fetch_tracks_ignoring_version(rows, required_version, limit, force_reanalyze) ==
    LET selected == {t \in Items :
                        /\ Catalog[t].filePath # None
                        /\ Catalog[t].filePath # ""
                        /\ \/ force_reanalyze
                           \/ ~ \E aa \in rows : aa.trackId = t}
        NegUpdatedAt == [t \in selected |-> 0 - Catalog[t].updatedAt]
        ordered == Limit(OrderBy(selected, NegUpdatedAt), limit)
    IN [i \in 1..Len(ordered) |->
            TrackForAnalysis(ordered[i], Catalog[ordered[i]].filePath)]

fetch_tracks_for_analysis(rows, required_version, limit, force_reanalyze) ==
    LET selected == {t \in Items :
                        /\ Catalog[t].filePath # None
                        /\ Catalog[t].filePath # ""
                        /\ \/ force_reanalyze
                           \/ ~ \E aa \in rows : aa.trackId = t
                           \/ \E aa \in rows : /\ aa.trackId = t
                                               /\ aa.analysisVersion # required_version}
        NegUpdatedAt == [t \in selected |-> 0 - Catalog[t].updatedAt]
        ordered == Limit(OrderBy(selected, NegUpdatedAt), limit)
    IN [i \in 1..Len(ordered) |->
            TrackForAnalysis(ordered[i], Catalog[ordered[i]].filePath)]

\* The query without WHERE resolved = FALSE.
list_failed_tracks_all(rows, limit) ==
    LET OccurredAt == [r \in rows |-> r.occurredAt]
        ordered == Limit(OrderBy(rows, OccurredAt), limit)
        kept == SelectSeq(ordered, LAMBDA r : TruthyStr(r.filePath))
    IN [i \in 1..Len(kept) |-> TrackForAnalysis(kept[i].trackId, kept[i].filePath)]

\* The query with the condition turned round: WHERE resolved = TRUE.
list_resolved_tracks(rows, limit) ==
    LET resolved == {r \in rows : r.resolved}
        OccurredAt == [r \in resolved |-> r.occurredAt]
        ordered == Limit(OrderBy(resolved, OccurredAt), limit)
        kept == SelectSeq(ordered, LAMBDA r : TruthyStr(r.filePath))
    IN [i \in 1..Len(kept) |-> TrackForAnalysis(kept[i].trackId, kept[i].filePath)]

list_failed_tracks(rows, limit) ==
    LET unresolved == {r \in rows : ~r.resolved}
        OccurredAt == [r \in unresolved |-> r.occurredAt]
        ordered == Limit(OrderBy(unresolved, OccurredAt), limit)
        kept == SelectSeq(ordered, LAMBDA r : TruthyStr(r.filePath))
    IN [i \in 1..Len(kept) |-> TrackForAnalysis(kept[i].trackId, kept[i].filePath)]

get_track_file_path(track_id) ==
    IF track_id \in Items /\ TruthyStr(Catalog[track_id].filePath)
    THEN Catalog[track_id].filePath
    ELSE None

\* =====================================================================
\* pipeline.py
\* =====================================================================

BatchSummary(n) ==
    [requested |-> n, processed |-> 0, saved |-> 0, failed |-> 0,
     skipped |-> 0, errors |-> <<>>]

\* What the environment does to one task: whether the source file exists
\* and, when it does, what analyze_file does: return one of two results,
\* raise FileNotFoundError (the file was deleted meanwhile), or raise another
\* exception.
Conds == {[exists |-> FALSE, engine |-> "none"]} \cup
         [exists : {TRUE}, engine : {"ok1", "ok2", "fnf", "raise"}]

NoCond == [exists |-> FALSE, engine |-> "unset"]

\* EssentiaAdapter.analyze_file: the result for an engine outcome.
analyze_file(kind, track_id, analysis_version) ==
    IF kind = "ok1"
    THEN TrackAnalysisResult(track_id, analysis_version, 120, NoNum, 1999, NoNum, "Tempo: 120.0 BPM")
    ELSE TrackAnalysisResult(track_id, analysis_version, 0, NoNum, NoNum, NoNum, None)

store_payload(st, storage_payload) ==
    LET result == from_storage_payload(storage_payload)
        saved == save_analysis(st, result)
    IN StoreResolveFailure(saved, result.track_id)

\* The skip branch without summary.errors.append.
SkipUnreported(sum, t, msg) == [sum EXCEPT !.skipped = @ + 1]

Skip(sum, t, msg) ==
    [sum EXCEPT !.skipped = @ + 1, !.errors = Append(@, <<t, msg>>)]

\* The failure branch without summary.failed += 1.
FailUncounted(sum, t, msg) == [sum EXCEPT !.errors = Append(@, <<t, msg>>)]

Fail(sum, t, msg) ==
    [sum EXCEPT !.failed = @ + 1, !.errors = Append(@, <<t, msg>>)]

\* The outcome of handling one item: the new store and summary, the class
\* the item was counted in, whether an exception escaped, and the number of
\* record_failure calls made.
Outcome(st, sum, class, raised, rec) ==
    [st |-> st, sum |-> sum, class |-> class, raised |-> raised, rec |-> rec]

\* The success tail shared by both paths: processed += 1, _store_payload,
\* saved += 1.  dbOk is whether save_analysis goes through.
StoreSuccess(st, sum, storage_payload, dbOk) ==
    LET counted == [sum EXCEPT !.processed = @ + 1]
    IN IF dbOk
       THEN Outcome(store_payload(st, storage_payload),
                    [counted EXCEPT !.saved = @ + 1], "saved", FALSE, 0)
       ELSE Outcome(st, counted, "aborted", TRUE, 0)

\* es_ok: EssentiaAdapter(...) can be constructed (es is not None).
analyze_single(st, sum, track, c, es_ok, dbOk) ==
    LET t == track.track_id
    IN IF ~c.exists
       THEN Outcome(st, Skip(sum, t, FileNotFoundMsg), "skipped", FALSE, 0)
       ELSE IF ~es_ok
       THEN Outcome(StoreRecordFailure(st, t, track.file_path, NotAvailableMsg),
                    Fail(sum, t, NotAvailableMsg), "failed", FALSE, 1)
       ELSE IF c.engine = "fnf"
       THEN Outcome(st, Skip(sum, t, FileNotFoundMsg), "skipped", FALSE, 0)
       ELSE IF c.engine = "raise"
       THEN Outcome(StoreRecordFailure(st, t, track.file_path, ExtractionMsg),
                    Fail(sum, t, ExtractionMsg), "failed", FALSE, 1)
       ELSE StoreSuccess(st, sum,
                         to_storage_payload(analyze_file(c.engine, t, Version)),
                         dbOk)

AudioNotFound(path) == "Audio file not found: " \o path

EngineFileNotFoundMsg == "No such file or directory"

NoResult == [kind |-> "none"]

\* _initialise_worker: does this call construct an adapter, and is one set
\* afterwards.
initialise_worker(cached, es_ok) ==
    [attempt |-> ~cached, cached |-> cached \/ es_ok,
     raised |-> ~cached /\ ~es_ok]

\* _worker_analyse: what the future of the task ends up holding.
worker_analyse(cached, track, c, es_ok) ==
    IF initialise_worker(cached, es_ok).raised
    THEN [kind |-> "exc", msg |-> NotAvailableMsg]
    ELSE IF ~c.exists
    THEN [kind |-> "fnf", msg |-> AudioNotFound(track.file_path)]
    ELSE IF c.engine = "fnf"
    THEN [kind |-> "fnf", msg |-> EngineFileNotFoundMsg]
    ELSE IF c.engine = "raise"
    THEN [kind |-> "exc", msg |-> ExtractionMsg]
    ELSE [kind |-> "ok",
          payload |-> to_storage_payload(analyze_file(c.engine, track.track_id, Version))]

\* The body of the as_completed loop for one future.
handle_completion(st, sum, track, res, dbOk) ==
    LET t == track.track_id
    IN IF res.kind = "fnf"
       THEN Outcome(st, Skip(sum, t, res.msg), "skipped", FALSE, 0)
       ELSE IF res.kind = "exc"
       THEN Outcome(StoreRecordFailure(st, t, track.file_path, res.msg),
                    Fail(sum, t, res.msg), "failed", FALSE, 1)
       ELSE StoreSuccess(st, sum, res.payload, dbOk)

Min(a, b) == IF a < b THEN a ELSE b

\* A pool sized by max_workers alone, whatever the host offers.
ConfiguredParallelism(max_workers, cpus) == max_workers

\* cpu_count = min(max_workers, os.cpu_count() or 1); cpus = 0 stands for an
\* unknown CPU count.
EffectiveParallelism(max_workers, cpus) ==
    Min(max_workers, IF cpus = 0 THEN 1 ELSE cpus)

\* limit or self.settings.batch_size; NoNum stands for limit=None.
ResolveLimit(limit) == IF TruthyNum(limit) THEN limit ELSE BatchSize

\* The loop without the "if not path: continue" branch.
analyze_specific_unfiltered(track_ids) ==
    [i \in 1..Len(track_ids) |->
        TrackForAnalysis(track_ids[i], get_track_file_path(track_ids[i]))]

analyze_specific_tracks(track_ids) ==
    LET kept == SelectSeq(track_ids, LAMBDA t : get_track_file_path(t) # None)
    IN [i \in 1..Len(kept) |-> TrackForAnalysis(kept[i], get_track_file_path(kept[i]))]

\* ---------------------------------------------------------------- inputs
Limits == {NoNum} \cup (0..BatchSize)

MaxWorkerSettings == 0..MaxWorkers

CpuCounts == {0, MaxWorkers}

SpecificInputs ==
    {<<"C">>, <<"D">>, <<"X">>, <<"C", "B">>, <<"C", "C">>, <<"X", "B">>, <<"C", "D">>}

\* The arguments of a public operation: limit and force of analyze_pending,
\* limit of retry_failures, track_ids of analyze_specific_tracks.
Args(limit, force, track_ids) ==
    [limit |-> limit, force |-> force, track_ids |-> track_ids]

NoArgs == Args(NoNum, FALSE, <<>>)

\* The settings of a run whose max_workers and CPU count are not recorded.
NoSettings == [max_workers |-> NoNum, cpus |-> NoNum]

\* Two database connections (two AnalysisStorage objects) writing the ledger.
Writers == {1, 2}

\* A connection that is not inside a record_failure call.
Idle == [at |-> "idle", track_id |-> None, file_path |-> None, error |-> None,
         fresh |-> FALSE]

\* ------------------------------------------------------------------- state
Init ==
    /\ failures = {}
    /\ analyses = {}
    /\ now = 1
    /\ pc = "idle"
    /\ op = "none"
    /\ tracks = <<>>
    /\ summary = BatchSummary(0)
    /\ idx = 1
    /\ pool = 0
    /\ futures = <<>>
    /\ results = <<>>
    /\ handled = <<>>
    /\ adapter = <<>>
    /\ built = <<>>
    /\ busy = <<>>
    /\ essentia = TRUE
    /\ cond = <<>>
    /\ recCalls = <<>>
    /\ lastOutcome = [t \in Items |-> "none"]
    /\ stored = [t \in Items |-> [engine |-> "none", times |-> 0]]
    /\ runs = 0
    /\ calls = 0
    /\ args = NoArgs
    /\ conn = [w \in Writers |-> Idle]
    /\ settings = NoSettings

\* The most recent outcome of an item, skips left out.
Remember(last, t, class) ==
    IF class = "saved" THEN [last EXCEPT ![t] = "success"]
    ELSE IF class \in {"failed", "aborted"} THEN [last EXCEPT ![t] = "failure"]
    ELSE last

\* The engine result behind the stored record of an item.
Saved(st, t, class, engine) ==
    IF class # "saved" THEN st
    ELSE [st EXCEPT ![t] = [engine |-> engine,
                            times |-> IF @.engine = engine THEN @.times + 1 ELSE 1]]

\* _process_tracks up to the point where items start being handled.
begin_run(o, work, max_workers, cpus, es_ok) ==
    LET n == Len(work)
        cpu_count == EffectiveParallelism(max_workers, cpus)
        workers == IF n = 0 \/ cpu_count <= 1 THEN 0 ELSE cpu_count
    IN /\ pc = "idle"
       /\ op' = o
       /\ tracks' = work
       /\ summary' = BatchSummary(n)
       /\ essentia' = es_ok
       /\ idx' = 1
       /\ handled' = [i \in 1..n |-> "none"]
       /\ cond' = [i \in 1..n |-> NoCond]
       /\ recCalls' = [i \in 1..n |-> 0]
       /\ pool' = workers
       /\ futures' = [i \in 1..n |-> IF workers = 0 THEN "none" ELSE "pending"]
       /\ results' = [i \in 1..n |-> NoResult]
       /\ adapter' = [w \in 1..workers |-> FALSE]
       /\ built' = [w \in 1..(IF workers = 0 THEN 1 ELSE workers) |-> 0]
       /\ busy' = [w \in 1..workers |-> 0]
       /\ pc' = IF n = 0 THEN "done" ELSE IF workers = 0 THEN "seq" ELSE "par"
       /\ UNCHANGED <<failures, analyses, now, lastOutcome, stored, calls, conn>>

\* One more run of the bounded number of runs.
process_tracks(o, work, max_workers, cpus, es_ok) ==
    /\ runs < MaxRuns
    /\ runs' = runs + 1
    /\ begin_run(o, work, max_workers, cpus, es_ok)

\* The settings of a run's process: max_workers, os.cpu_count() and whether
\* essentia is importable.
Start(o, work) ==
    \E max_workers \in MaxWorkerSettings, cpus \in CpuCounts, es_ok \in BOOLEAN :
        /\ process_tracks(o, work, max_workers, cpus, es_ok)
        /\ UNCHANGED settings

analyze_pending ==
    /\ pc = "idle"
    /\ \E limit \in Limits, force_reanalyze \in BOOLEAN :
          /\ args' = Args(limit, force_reanalyze, <<>>)
          /\ Start("pending",
                   fetch_tracks_for_analysis(analyses, Version, ResolveLimit(limit),
                                             force_reanalyze))

analyze_specific ==
    /\ pc = "idle"
    /\ \E track_ids \in SpecificInputs :
          /\ args' = Args(NoNum, FALSE, track_ids)
          /\ Start("specific", analyze_specific_tracks(track_ids))

retry_failures ==
    /\ pc = "idle"
    /\ \E limit \in Limits :
          /\ args' = Args(limit, FALSE, <<>>)
          /\ Start("retry", list_failed_tracks(failures, ResolveLimit(limit)))

\* A sequential loop that keeps the first adapter it constructed for the
\* later items.
AnalyzeSingleCached(c, dbOk) ==
    /\ pc = "seq"
    /\ LET track == tracks[idx]
           out == analyze_single(Store, summary, track, c, essentia, dbOk)
       IN /\ failures' = out.st.failures
          /\ analyses' = out.st.analyses
          /\ now' = out.st.now
          /\ summary' = out.sum
          /\ handled' = [handled EXCEPT ![idx] = out.class]
          /\ cond' = [cond EXCEPT ![idx] = c]
          /\ recCalls' = [recCalls EXCEPT ![idx] = @ + out.rec]
          /\ built' = [built EXCEPT ![1] = IF c.exists /\ @ = 0 THEN 1 ELSE @]
          /\ lastOutcome' = Remember(lastOutcome, track.track_id, out.class)
          /\ stored' = Saved(stored, track.track_id, out.class, c.engine)
          /\ idx' = idx + 1
          /\ pc' = IF out.raised THEN "raised"
                   ELSE IF idx = Len(tracks) THEN "done" ELSE "seq"
    /\ UNCHANGED <<op, tracks, pool, futures, results, adapter, busy, essentia,
                   runs, calls,
                   args, conn, settings>>

\* One iteration of the sequential loop: _analyze_single for tracks[idx].
AnalyzeSingle(c, dbOk) ==
    /\ pc = "seq"
    /\ LET track == tracks[idx]
           out == analyze_single(Store, summary, track, c, essentia, dbOk)
       IN /\ failures' = out.st.failures
          /\ analyses' = out.st.analyses
          /\ now' = out.st.now
          /\ summary' = out.sum
          /\ handled' = [handled EXCEPT ![idx] = out.class]
          /\ cond' = [cond EXCEPT ![idx] = c]
          /\ recCalls' = [recCalls EXCEPT ![idx] = @ + out.rec]
          /\ built' = [built EXCEPT ![1] = IF c.exists THEN @ + 1 ELSE @]
          /\ lastOutcome' = Remember(lastOutcome, track.track_id, out.class)
          /\ stored' = Saved(stored, track.track_id, out.class, c.engine)
          /\ idx' = idx + 1
          /\ pc' = IF out.raised THEN "raised"
                   ELSE IF idx = Len(tracks) THEN "done" ELSE "seq"
    /\ UNCHANGED <<op, tracks, pool, futures, results, adapter, busy, essentia,
                   runs, calls,
                   args, conn, settings>>

\* A worker process takes the next work item of the call queue.
WorkerStart(w) ==
    /\ pc \in {"par", "closing"}
    /\ w \in 1..pool
    /\ busy[w] = 0
    /\ \E i \in 1..Len(tracks) :
          /\ futures[i] = "pending"
          /\ \A j \in 1..(i - 1) : futures[j] # "pending"
          /\ futures' = [futures EXCEPT ![i] = "running"]
          /\ busy' = [busy EXCEPT ![w] = i]
    /\ UNCHANGED <<failures, analyses, now, pc, op, tracks, summary, idx, pool,
                   results, handled, adapter, built, essentia, cond, recCalls,
                   lastOutcome, stored, runs, calls,
                   args, conn, settings>>

\* A worker that writes the ledger itself when its task fails, instead of
\* handing the error to the coordinator.
WorkerFinishWrites(w, c) ==
    /\ pc \in {"par", "closing"}
    /\ w \in 1..pool
    /\ busy[w] # 0
    /\ LET i == busy[w]
           init == initialise_worker(adapter[w], essentia)
           res == worker_analyse(adapter[w], tracks[i], c, essentia)
           st == IF res.kind = "exc"
                 THEN StoreRecordFailure(Store, tracks[i].track_id,
                                         tracks[i].file_path, res.msg)
                 ELSE Store
       IN /\ results' = [results EXCEPT ![i] = res]
          /\ failures' = st.failures
          /\ now' = st.now
          /\ cond' = [cond EXCEPT ![i] = c]
          /\ futures' = [futures EXCEPT ![i] = "finished"]
          /\ adapter' = [adapter EXCEPT ![w] = init.cached]
          /\ built' = [built EXCEPT ![w] = IF init.attempt THEN @ + 1 ELSE @]
          /\ busy' = [busy EXCEPT ![w] = 0]
    /\ UNCHANGED <<analyses, pc, op, tracks, summary, idx, pool, handled,
                   essentia, recCalls, lastOutcome, stored, runs, calls, args,
                   conn, settings>>

\* The worker runs _worker_analyse for its task and the future completes.
WorkerFinish(w, c) ==
    /\ pc \in {"par", "closing"}
    /\ w \in 1..pool
    /\ busy[w] # 0
    /\ LET i == busy[w]
           init == initialise_worker(adapter[w], essentia)
       IN /\ results' = [results EXCEPT
                            ![i] = worker_analyse(adapter[w], tracks[i], c, essentia)]
          /\ cond' = [cond EXCEPT ![i] = c]
          /\ futures' = [futures EXCEPT ![i] = "finished"]
          /\ adapter' = [adapter EXCEPT ![w] = init.cached]
          /\ built' = [built EXCEPT ![w] = IF init.attempt THEN @ + 1 ELSE @]
          /\ busy' = [busy EXCEPT ![w] = 0]
    /\ UNCHANGED <<failures, analyses, now, pc, op, tracks, summary, idx, pool,
                   handled, essentia, recCalls, lastOutcome, stored, runs, calls,
                   args, conn, settings>>

\* A loop that stops at the first completed future.
AnyHandled(h) == \E i \in 1..Len(h) : h[i] # "none"

AllHandled(h) == \A i \in 1..Len(h) : h[i] # "none"

AllFinished == \A i \in 1..Len(futures) : futures[i] = "finished"

\* One iteration of the as_completed loop; after the last one the finally
\* clause shuts the pool down and the summary is returned.  When the store
\* write raises, the finally clause first waits for the remaining futures.
HandleCompletion(i, dbOk) ==
    /\ pc = "par"
    /\ i \in 1..Len(tracks)
    /\ futures[i] = "finished"
    /\ handled[i] = "none"
    /\ LET track == tracks[i]
           out == handle_completion(Store, summary, track, results[i], dbOk)
           h == [handled EXCEPT ![i] = out.class]
           released == IF out.raised THEN AllFinished ELSE AllHandled(h)
       IN /\ failures' = out.st.failures
          /\ analyses' = out.st.analyses
          /\ now' = out.st.now
          /\ summary' = out.sum
          /\ handled' = h
          /\ recCalls' = [recCalls EXCEPT ![i] = @ + out.rec]
          /\ lastOutcome' = Remember(lastOutcome, track.track_id, out.class)
          /\ stored' = Saved(stored, track.track_id, out.class, cond[i].engine)
          /\ pc' = IF out.raised
                   THEN (IF released THEN "raised" ELSE "closing")
                   ELSE IF released THEN "done" ELSE "par"
          /\ pool' = IF released THEN 0 ELSE pool
    /\ UNCHANGED <<op, tracks, idx, futures, results, adapter, built, busy,
                   essentia, cond, runs, calls,
                   args, conn, settings>>

\* A finally clause that calls shutdown(wait=False): it does not wait for the
\* submitted futures.
ShutdownNoWait ==
    /\ pc = "closing"
    /\ pc' = "raised"
    /\ pool' = 0
    /\ UNCHANGED <<failures, analyses, now, op, tracks, summary, idx, futures,
                   results, handled, adapter, built, busy, essentia, cond,
                   recCalls, lastOutcome, stored, runs, calls, args, conn, settings>>

\* self._pool.shutdown(wait=True) returns once every submitted future has
\* finished; the exception of the store write then propagates.
Shutdown ==
    /\ pc = "closing"
    /\ AllFinished
    /\ pc' = "raised"
    /\ pool' = 0
    /\ UNCHANGED <<failures, analyses, now, op, tracks, summary, idx, futures,
                   results, handled, adapter, built, busy, essentia, cond,
                   recCalls, lastOutcome, stored, runs, calls,
                   args, conn, settings>>

\* cli.py: the summary is printed (or the exception escapes), the pipeline is
\* closed and the process ends; the next run is a new process.
Exit ==
    /\ pc \in {"done", "raised"}
    /\ pc' = "idle"
    /\ op' = "none"
    /\ tracks' = <<>>
    /\ summary' = BatchSummary(0)
    /\ idx' = 1
    /\ pool' = 0
    /\ futures' = <<>>
    /\ results' = <<>>
    /\ handled' = <<>>
    /\ adapter' = <<>>
    /\ built' = <<>>
    /\ busy' = <<>>
    /\ essentia' = TRUE
    /\ cond' = <<>>
    /\ recCalls' = <<>>
    /\ args' = NoArgs
    /\ settings' = NoSettings
    /\ UNCHANGED <<failures, analyses, now, lastOutcome, stored, runs, calls, conn>>

SequentialStep == pc = "seq" /\ \E c \in Conds, dbOk \in BOOLEAN : AnalyzeSingle(c, dbOk)

WorkerTakes == pc \in {"par", "closing"} /\ \E w \in 1..pool : WorkerStart(w)

WorkerReturns == pc \in {"par", "closing"} /\ \E w \in 1..pool, c \in Conds : WorkerFinish(w, c)

CoordinatorStep ==
    pc = "par" /\ \E i \in DOMAIN tracks, dbOk \in BOOLEAN : HandleCompletion(i, dbOk)

Next ==
    \/ analyze_pending
    \/ analyze_specific
    \/ retry_failures
    \/ SequentialStep
    \/ WorkerTakes
    \/ WorkerReturns
    \/ CoordinatorStep
    \/ Shutdown
    \/ Exit

Spec == Init /\ [][Next]_vars


\* ---------------------------------------------------------------------
\* The store on its own: any sequence of direct AnalysisStorage calls.  op
\* and tracks name the call just made.
\* ---------------------------------------------------------------------
StoreItems == {"A", "B"}

Messages == {NotAvailableMsg, ExtractionMsg}

StoreCall(name, t, st) ==
    /\ calls < MaxCalls
    /\ calls' = calls + 1
    /\ op' = name
    /\ tracks' = <<TrackForAnalysis(t, Catalog[t].filePath)>>
    /\ failures' = st.failures
    /\ analyses' = st.analyses
    /\ now' = st.now
    /\ UNCHANGED <<pc, summary, idx, pool, futures, results, handled, adapter,
                   built, busy, essentia, cond, recCalls, lastOutcome, stored,
                   runs, args, conn, settings>>

CallRecordFailure(t, path, err) ==
    StoreCall("record_failure", t, StoreRecordFailure(Store, t, path, err))

CallResolveFailure(t) ==
    StoreCall("resolve_failure", t, StoreResolveFailure(Store, t))

CallSaveAnalysis(t, engine) ==
    StoreCall("save_analysis", t, save_analysis(Store, analyze_file(engine, t, Version)))

CallStorePayload(t, engine) ==
    StoreCall("store_payload", t,
              store_payload(Store, to_storage_payload(analyze_file(engine, t, Version))))

NextStore ==
    \/ \E t \in StoreItems, err \in Messages :
          \E path \in {None, Catalog[t].filePath} : CallRecordFailure(t, path, err)
    \/ \E t \in StoreItems : CallResolveFailure(t)
    \/ \E t \in StoreItems, engine \in {"ok1", "ok2"} : CallSaveAnalysis(t, engine)
    \/ \E t \in StoreItems, engine \in {"ok1", "ok2"} : CallStorePayload(t, engine)

SpecStore == Init /\ [][NextStore]_vars


\* ---------------------------------------------------------------------
\* fetch_tracks_for_analysis on its own: the Result Store starts with any
\* mix of missing, stale and current records, and the query is called with
\* any version, limit and force between saves.
\* ---------------------------------------------------------------------
Versions == {Version, OldVersion}

SelectLimits == 0..Cardinality(Items)

SelectArgs(required_version, limit, force) ==
    [limit |-> limit, force |-> force, track_ids |-> <<>>,
     required_version |-> required_version]

InitSelect ==
    /\ \E have \in [Items -> {None} \cup Versions] :
          analyses = {AnalysisRow(to_storage_payload(analyze_file("ok1", t, have[t]))) :
                         t \in {i \in Items : have[i] # None}}
    /\ failures = {}
    /\ now = 1
    /\ pc = "idle"
    /\ op = "none"
    /\ tracks = <<>>
    /\ summary = BatchSummary(0)
    /\ idx = 1
    /\ pool = 0
    /\ futures = <<>>
    /\ results = <<>>
    /\ handled = <<>>
    /\ adapter = <<>>
    /\ built = <<>>
    /\ busy = <<>>
    /\ essentia = TRUE
    /\ cond = <<>>
    /\ recCalls = <<>>
    /\ lastOutcome = [t \in Items |-> "none"]
    /\ stored = [t \in Items |-> [engine |-> "none", times |-> 0]]
    /\ runs = 0
    /\ calls = 0
    /\ args = NoArgs
    /\ conn = [w \in Writers |-> Idle]
    /\ settings = NoSettings

CallFetch(required_version, limit, force_reanalyze) ==
    /\ op' = "select"
    /\ args' = SelectArgs(required_version, limit, force_reanalyze)
    /\ tracks' = fetch_tracks_for_analysis(analyses, required_version, limit,
                                           force_reanalyze)
    /\ UNCHANGED <<failures, analyses, now, pc, summary, idx, pool, futures,
                   results, handled, adapter, built, busy, essentia, cond,
                   recCalls, lastOutcome, stored, runs, calls, conn, settings>>

\* A record of item t is saved at version v between two queries.
SaveAtVersion(t, v) ==
    /\ op' = "save_analysis"
    /\ args' = NoArgs
    /\ tracks' = <<TrackForAnalysis(t, Catalog[t].filePath)>>
    /\ analyses' = save_analysis(Store, analyze_file("ok1", t, v)).analyses
    /\ UNCHANGED <<failures, now, pc, summary, idx, pool, futures, results,
                   handled, adapter, built, busy, essentia, cond, recCalls,
                   lastOutcome, stored, runs, calls, conn, settings>>

NextSelect ==
    \/ \E v \in Versions, limit \in SelectLimits, force \in BOOLEAN :
          CallFetch(v, limit, force)
    \/ \E t \in Items, v \in Versions : SaveAtVersion(t, v)

SpecSelect == InitSelect /\ [][NextSelect]_vars


\* ---------------------------------------------------------------------
\* The three-item scenario: analyze_specific_tracks(["A", "B", "C"]) where
\* the engine returns a result for A, the file of B is missing and the engine
\* raises for C, in either execution mode and with any scheduling of the
\* workers.
\* ---------------------------------------------------------------------
ScenarioIds == <<"A", "B", "C">>

ScenarioCond ==
    [A |-> [exists |-> TRUE, engine |-> "ok1"],
     B |-> [exists |-> FALSE, engine |-> "none"],
     C |-> [exists |-> TRUE, engine |-> "raise"]]

ScenarioStart ==
    /\ pc = "idle"
    /\ args' = Args(NoNum, FALSE, ScenarioIds)
    /\ Start("specific", analyze_specific_tracks(ScenarioIds))

ScenarioSequentialStep ==
    /\ pc = "seq"
    /\ \E dbOk \in BOOLEAN : AnalyzeSingle(ScenarioCond[tracks[idx].track_id], dbOk)

ScenarioWorkerReturns ==
    /\ pc \in {"par", "closing"}
    /\ \E w \in 1..pool :
          /\ busy[w] # 0
          /\ WorkerFinish(w, ScenarioCond[tracks[busy[w]].track_id])

NextScenario ==
    \/ ScenarioStart
    \/ ScenarioSequentialStep
    \/ WorkerTakes
    \/ ScenarioWorkerReturns
    \/ CoordinatorStep
    \/ Shutdown
    \/ Exit

SpecScenario == Init /\ [][NextScenario]_vars


\* ---------------------------------------------------------------------
\* record_failure statement by statement, called on two connections at once.
\* Each statement is one autocommit transaction; a call is at "insert" before
\* its INSERT, at "except" once the INSERT raised IntegrityError, at "done"
\* when it returned and at "escaped" when an exception left it.
\* ---------------------------------------------------------------------
raceFrame == <<analyses, pc, op, tracks, summary, idx, pool, futures, results,
               handled, adapter, built, busy, essentia, cond, recCalls,
               lastOutcome, stored, runs, args, settings>>

BeginRecordFailure(w, t, path, err) ==
    /\ conn[w].at \in {"idle", "done"}
    /\ calls < MaxCalls
    /\ calls' = calls + 1
    /\ conn' = [conn EXCEPT ![w] = [at |-> "insert", track_id |-> t,
                                    file_path |-> path, error |-> err,
                                    fresh |-> ~IntegrityError(failures, t)]]
    /\ UNCHANGED <<failures, now>>
    /\ UNCHANGED raceFrame

\* cur.execute(query, ...): the INSERT.
ExecuteInsert(w) ==
    /\ conn[w].at = "insert"
    /\ IF IntegrityError(failures, conn[w].track_id)
       THEN /\ conn' = [conn EXCEPT ![w].at = "except"]
            /\ UNCHANGED <<failures, now>>
       ELSE /\ failures' = failures \cup {FailureRow(conn[w].track_id, conn[w].file_path,
                                                      conn[w].error, now)}
            /\ now' = now + 1
            /\ conn' = [conn EXCEPT ![w].at = "done"]
    /\ UNCHANGED calls
    /\ UNCHANGED raceFrame

\* A call without the except clause: the IntegrityError leaves it.
ReraiseIntegrityError(w) ==
    /\ conn[w].at = "except"
    /\ conn' = [conn EXCEPT ![w].at = "escaped"]
    /\ UNCHANGED <<failures, now, calls>>
    /\ UNCHANGED raceFrame

\* except psycopg.IntegrityError: cur.execute(update_query, ...).
ExceptIntegrityError(w) ==
    /\ conn[w].at = "except"
    /\ failures' = UpdateFailure(failures, conn[w].track_id, conn[w].file_path,
                                 conn[w].error, now)
    /\ now' = now + 1
    /\ conn' = [conn EXCEPT ![w].at = "done"]
    /\ UNCHANGED calls
    /\ UNCHANGED raceFrame

NextRace ==
    \/ \E w \in Writers, t \in StoreItems, err \in Messages :
          BeginRecordFailure(w, t, Catalog[t].filePath, err)
    \/ \E w \in Writers : ExecuteInsert(w)
    \/ \E w \in Writers : ExceptIntegrityError(w)

SpecRace == Init /\ [][NextRace]_vars


\* ---------------------------------------------------------------------
\* Runs whose max_workers setting and host CPU count are recorded:
\* analyze_specific_tracks under any ANALYSIS_MAX_WORKERS, zero and negative
\* values included, on hosts of any size.
\* ---------------------------------------------------------------------
WorkerSettings == (0 - 1)..(MaxWorkers + 1)

HostCpus == 0..MaxWorkers

SettingsStart ==
    /\ pc = "idle"
    /\ \E track_ids \in SpecificInputs, max_workers \in WorkerSettings,
          cpus \in HostCpus, es_ok \in BOOLEAN :
          /\ args' = Args(NoNum, FALSE, track_ids)
          /\ settings' = [max_workers |-> max_workers, cpus |-> cpus]
          /\ process_tracks("specific", analyze_specific_tracks(track_ids),
                            max_workers, cpus, es_ok)

NextSettings ==
    \/ SettingsStart
    \/ SequentialStep
    \/ WorkerTakes
    \/ WorkerReturns
    \/ CoordinatorStep
    \/ Shutdown
    \/ Exit

SpecSettings == Init /\ [][NextSettings]_vars


\* ---------------------------------------------------------------------
\* The ledger queue: list_failed_tracks called between any direct store
\* calls.
\* ---------------------------------------------------------------------
ListLimits == 0..Cardinality(StoreItems)

CallListFailed(limit) ==
    /\ op' = "list_failed_tracks"
    /\ args' = Args(limit, FALSE, <<>>)
    /\ tracks' = list_failed_tracks(failures, limit)
    /\ UNCHANGED <<failures, analyses, now, pc, summary, idx, pool, futures,
                   results, handled, adapter, built, busy, essentia, cond,
                   recCalls, lastOutcome, stored, runs, calls, conn, settings>>

NextLedger ==
    \/ NextStore
    \/ \E limit \in ListLimits : CallListFailed(limit)

SpecLedger == Init /\ [][NextLedger]_vars


\* ---------------------------------------------------------------------
\* Repeated runs with a fixed limit, for as long as one likes: the engine is
\* available, no store write raises, and an item fails at most MaxRetries
\* times after its first failure; a file may be missing in any run.
\* ---------------------------------------------------------------------
CanFail(t) == \A r \in failures : r.trackId = t => r.retryCount < MaxRetries

AllowedConds(t) == {c \in Conds : c.engine = "raise" => CanFail(t)}

FairSequentialStep ==
    /\ pc = "seq"
    /\ \E c \in AllowedConds(tracks[idx].track_id) : AnalyzeSingle(c, TRUE)

FairWorkerReturns ==
    /\ pc = "par"
    /\ \E w \in 1..pool :
          /\ busy[w] # 0
          /\ \E c \in AllowedConds(tracks[busy[w]].track_id) : WorkerFinish(w, c)

FairCoordinatorStep ==
    /\ pc = "par"
    /\ \E i \in DOMAIN tracks : HandleCompletion(i, TRUE)

\* The ledger after a sequential analyze_pending run in which C, B and A
\* failed, in that order.
InitRetry ==
    /\ failures = {FailureRow("C", "/m/c", ExtractionMsg, 1),
                   FailureRow("B", "/m/b", ExtractionMsg, 2),
                   FailureRow("A", "/m/a", ExtractionMsg, 3)}
    /\ analyses = {}
    /\ now = 4
    /\ pc = "idle"
    /\ op = "none"
    /\ tracks = <<>>
    /\ summary = BatchSummary(0)
    /\ idx = 1
    /\ pool = 0
    /\ futures = <<>>
    /\ results = <<>>
    /\ handled = <<>>
    /\ adapter = <<>>
    /\ built = <<>>
    /\ busy = <<>>
    /\ essentia = TRUE
    /\ cond = <<>>
    /\ recCalls = <<>>
    /\ lastOutcome = [t \in Items |-> IF t = "D" THEN "none" ELSE "failure"]
    /\ stored = [t \in Items |-> [engine |-> "none", times |-> 0]]
    /\ runs = 0
    /\ calls = 0
    /\ args = NoArgs
    /\ conn = [w \in Writers |-> Idle]
    /\ settings = NoSettings

RetryStart ==
    /\ pc = "idle"
    /\ args' = Args(FixedLimit, FALSE, <<>>)
    /\ \E max_workers \in MaxWorkerSettings, cpus \in CpuCounts :
          begin_run("retry", list_failed_tracks(failures, ResolveLimit(FixedLimit)),
                    max_workers, cpus, TRUE)
    /\ UNCHANGED <<runs, settings>>

NextRetry ==
    \/ RetryStart
    \/ FairSequentialStep
    \/ WorkerTakes
    \/ FairWorkerReturns
    \/ FairCoordinatorStep
    \/ Exit

\* The runs never stop: a run has finitely many steps, so it is enough that
\* some step is taken whenever one can be, for every run to end and the next
\* one to start.
SpecRetry == InitRetry /\ [][NextRetry]_vars /\ WF_vars(NextRetry)


\* The Result Store holds a record of B written at the previous version.
InitPending ==
    /\ failures = {}
    /\ analyses = {AnalysisRow(to_storage_payload(analyze_file("ok1", "B", OldVersion)))}
    /\ now = 1
    /\ pc = "idle"
    /\ op = "none"
    /\ tracks = <<>>
    /\ summary = BatchSummary(0)
    /\ idx = 1
    /\ pool = 0
    /\ futures = <<>>
    /\ results = <<>>
    /\ handled = <<>>
    /\ adapter = <<>>
    /\ built = <<>>
    /\ busy = <<>>
    /\ essentia = TRUE
    /\ cond = <<>>
    /\ recCalls = <<>>
    /\ lastOutcome = [t \in Items |-> IF t = "B" THEN "success" ELSE "none"]
    /\ stored = [t \in Items |-> IF t = "B" THEN [engine |-> "ok1", times |-> 1]
                                  ELSE [engine |-> "none", times |-> 0]]
    /\ runs = 0
    /\ calls = 0
    /\ args = NoArgs
    /\ conn = [w \in Writers |-> Idle]
    /\ settings = NoSettings

PendingStart ==
    /\ pc = "idle"
    /\ args' = Args(FixedLimit, FALSE, <<>>)
    /\ \E max_workers \in MaxWorkerSettings, cpus \in CpuCounts :
          begin_run("pending",
                    fetch_tracks_for_analysis(analyses, Version,
                                              ResolveLimit(FixedLimit), FALSE),
                    max_workers, cpus, TRUE)
    /\ UNCHANGED <<runs, settings>>

NextPending ==
    \/ PendingStart
    \/ FairSequentialStep
    \/ WorkerTakes
    \/ FairWorkerReturns
    \/ FairCoordinatorStep
    \/ Exit

SpecPending == InitPending /\ [][NextPending]_vars /\ WF_vars(NextPending)


\* ---------------------------------------------------------------------
\* Runs whose engine calls all return or raise and whose store writes all go
\* through: analyze_specific_tracks over three items, one that is saved, one
\* whose file is missing and one whose engine call raises, in every
\* completion order.  A run is a finite loop over the work set and the
\* worker processes keep running, so a step that can be taken is taken.
\* ---------------------------------------------------------------------
DrainSequentialStep ==
    pc = "seq" /\ AnalyzeSingle(ScenarioCond[tracks[idx].track_id], TRUE)

NextDrain ==
    \/ ScenarioStart
    \/ DrainSequentialStep
    \/ WorkerTakes
    \/ ScenarioWorkerReturns
    \/ FairCoordinatorStep
    \/ Exit

SpecDrain == Init /\ [][NextDrain]_vars /\ WF_vars(NextDrain)


\* ---------------------------------------------------------------------
\* _store_payload on its own: the engine has produced any record, optional
\* descriptors absent, zero, empty or set, and the coordinator persists its
\* payload.  results[1] holds the payload the engine's side handed over.
\* ---------------------------------------------------------------------
OptionalNumbers == {NoNum, 0, 7}

OptionalYears == {NoNum, 0, 1999}

OptionalDecades == {NoNum, 0, 1990}

OptionalStrings == {None, "", "x"}

EngineRecords ==
    {TrackAnalysisResult(t, Version, tempo, dance, year, decade, summ) :
        t \in StoreItems, tempo \in OptionalNumbers, dance \in OptionalNumbers,
        year \in OptionalYears, decade \in OptionalDecades,
        summ \in OptionalStrings}

InitRoundTrip ==
    /\ \E r \in EngineRecords :
          /\ results = <<[kind |-> "ok", payload |-> to_storage_payload(r)]>>
          /\ tracks = <<TrackForAnalysis(r.track_id, Catalog[r.track_id].filePath)>>
    /\ failures = {}
    /\ analyses = {}
    /\ now = 1
    /\ pc = "idle"
    /\ op = "none"
    /\ summary = BatchSummary(0)
    /\ idx = 1
    /\ pool = 0
    /\ futures = <<>>
    /\ handled = <<>>
    /\ adapter = <<>>
    /\ built = <<>>
    /\ busy = <<>>
    /\ essentia = TRUE
    /\ cond = <<>>
    /\ recCalls = <<>>
    /\ lastOutcome = [t \in Items |-> "none"]
    /\ stored = [t \in Items |-> [engine |-> "none", times |-> 0]]
    /\ runs = 0
    /\ calls = 0
    /\ args = NoArgs
    /\ conn = [w \in Writers |-> Idle]
    /\ settings = NoSettings

PersistResult ==
    StoreCall("store_payload", tracks[1].track_id,
              store_payload(Store, results[1].payload))

NextRoundTrip == PersistResult

SpecRoundTrip == InitRoundTrip /\ [][NextRoundTrip]_vars


\* =====================================================================
\* Properties
\* =====================================================================

\* The step handles task i: the sequential loop or the as_completed loop
\* classifies it.
HandledStep(i) ==
    /\ i \in DOMAIN handled
    /\ i \in DOMAIN handled'
    /\ handled[i] = "none"
    /\ handled'[i] # "none"

RowsOf(rows, t) == {r \in rows : r.trackId = t}

HasError(sum, t, msg) == \E k \in DOMAIN sum.errors : sum.errors[k] = <<t, msg>>

\* C1: every BatchSummary returned by analyze_pending or retry_failures has
\* requested = processed + failed + skipped and requested = saved + failed +
\* skipped, in sequential and in parallel execution.
C1_SummaryAccounting ==
    (pc = "done" /\ op \in {"pending", "retry"}) =>
        /\ summary.requested = summary.processed + summary.failed + summary.skipped
        /\ summary.requested = summary.saved + summary.failed + summary.skipped

\* A parallel retry_failures run of two items returned a summary with one item
\* saved and one failed.
C1_Witness ==
    /\ pc = "done"
    /\ op = "retry"
    /\ summary.requested = 2
    /\ summary.saved = 1
    /\ summary.failed = 1
    /\ futures[1] = "finished"

\* C2: when upsert_record raises for an item whose extraction succeeded, the
\* run does not abort: the item is counted in failed, its error is appended,
\* record_failure is called for it and the run goes on to return a summary.
C2_PersistenceErrorIsAFailure ==
    \A i \in DOMAIN handled :
        handled[i] = "aborted" =>
            /\ pc \notin {"closing", "raised"}
            /\ summary.failed >= 1
            /\ recCalls[i] = 1
            /\ \E k \in DOMAIN summary.errors :
                  summary.errors[k][1] = tracks[i].track_id

\* C3: under the same per-item conditions the parallel path classifies an
\* item as the sequential path does and leaves the same Failure Ledger and
\* Result Store: each iteration of the as_completed loop has the effect
\* _analyze_single has for that item.
C3_ParallelAsSequential ==
    [][\A i \in DOMAIN handled :
          (pc = "par" /\ HandledStep(i)) =>
              LET seq == analyze_single(Store, summary, tracks[i], cond[i],
                                        essentia, handled'[i] # "aborted")
              IN /\ handled'[i] = seq.class
                 /\ failures' = seq.st.failures
                 /\ analyses' = seq.st.analyses]_vars

\* C4: an item whose source file does not exist when it is executed is
\* counted in skipped, not in failed, and the Failure Ledger is left as it
\* was.
C4_MissingFileSkipped ==
    [][\A i \in DOMAIN handled :
          (HandledStep(i) /\ ~cond'[i].exists) =>
              /\ handled'[i] = "skipped"
              /\ summary'.skipped = summary.skipped + 1
              /\ summary'.failed = summary.failed
              /\ failures' = failures]_vars

\* The classes an item can get on its own outcome: skipped for a missing
\* file, failed for an engine error, saved (or failed, on a persistence error)
\* for an engine result.
OwnClasses(c) ==
    IF ~c.exists \/ c.engine = "fnf" THEN {"skipped"}
    ELSE IF c.engine = "raise" THEN {"failed"}
    ELSE {"saved", "failed"}

\* C5: once a run in which the engine raised for an item has ended, that item
\* is counted in failed with its error appended and exactly one record_failure
\* call, and every other item of the work set has been attempted and
\* classified on its own outcome.
C5_EngineErrorIsolated ==
    \A i \in DOMAIN cond :
        (/\ pc \in {"done", "raised"}
         /\ essentia
         /\ cond[i].exists
         /\ cond[i].engine = "raise") =>
            /\ handled[i] = "failed"
            /\ recCalls[i] = 1
            /\ HasError(summary, tracks[i].track_id, ExtractionMsg)
            /\ \A j \in DOMAIN handled : handled[j] \in OwnClasses(cond[j])

\* C6: a success (_store_payload: upsert_record, then resolve_failure) for an
\* item that has a FailureEntry leaves the entry resolved with the
\* retry_count it had.
C6_SuccessKeepsRetryCount ==
    [][(op' = "store_payload" /\ calls' = calls + 1) =>
          LET t == tracks'[1].track_id
          IN \A r \in RowsOf(failures, t) :
                /\ RowsOf(failures', t) # {}
                /\ \A q \in RowsOf(failures', t) :
                      q.resolved /\ q.retryCount = r.retryCount]_vars

\* An item failed at least twice and then succeeded: its entry is resolved and
\* still counts the retries.
C6_Witness ==
    /\ op = "store_payload"
    /\ \E r \in RowsOf(failures, tracks[1].track_id) :
          r.resolved /\ r.retryCount >= 1

\* C7: a failure of an item that already has a FailureEntry keeps exactly one
\* entry, raises its retry_count by exactly 1, overwrites error_message with
\* the new message and sets resolved=false, in every kind of run.
C7_RepeatFailureIncrements ==
    [][\A i \in DOMAIN handled :
          (HandledStep(i) /\ handled'[i] = "failed"
              /\ RowsOf(failures, tracks[i].track_id) # {}) =>
              LET t == tracks[i].track_id
                  msg == summary'.errors[Len(summary'.errors)][2]
              IN /\ Cardinality(RowsOf(failures, t)) = 1
                 /\ Cardinality(RowsOf(failures', t)) = 1
                 /\ \A r \in RowsOf(failures, t), q \in RowsOf(failures', t) :
                       /\ q.retryCount = r.retryCount + 1
                       /\ q.error = msg
                       /\ ~q.resolved]_vars

\* A retry_failures run failed again for an item of the ledger.
C7_Witness ==
    /\ op = "retry"
    /\ \E i \in DOMAIN handled :
          /\ handled[i] = "failed"
          /\ \E r \in RowsOf(failures, tracks[i].track_id) :
                r.retryCount = 1 /\ ~r.resolved

\* C8: there is at most one AnalysisRecord per item, and saving an item again
\* with the engine output that produced its stored record leaves that single
\* record with the same version and descriptor fields.
C8_UpsertIdempotent ==
    /\ [](\A r1, r2 \in analyses : r1.trackId = r2.trackId => r1 = r2)
    /\ [][\A i \in DOMAIN handled :
             (HandledStep(i) /\ handled'[i] = "saved"
                 /\ cond'[i].engine = stored[tracks[i].track_id].engine) =>
                 /\ RowsOf(analyses', tracks[i].track_id)
                       = RowsOf(analyses, tracks[i].track_id)
                 /\ Cardinality(RowsOf(analyses', tracks[i].track_id)) = 1]_vars

\* analyze_specific(["C"]) saved C a second time in a row with the same engine
\* output.
C8_Witness ==
    /\ pc = "done"
    /\ op = "specific"
    /\ Len(tracks) = 1
    /\ tracks[1].track_id = "C"
    /\ handled[1] = "saved"
    /\ stored["C"].times = 2

\* C9: over any sequence of record_failure, resolve_failure and upsert_record
\* calls there is at most one FailureEntry per item, no entry is ever deleted
\* and no retry_count ever decreases.
C9_LedgerMonotone ==
    /\ [](\A r1, r2 \in failures : r1.trackId = r2.trackId => r1 = r2)
    /\ [][\A r \in failures :
             \E q \in failures' :
                 q.trackId = r.trackId /\ q.retryCount >= r.retryCount]_vars

\* Both items have an entry, one of them failed three times and was resolved.
C9_Witness ==
    /\ \E r \in failures : r.trackId = "A" /\ r.retryCount >= 2 /\ r.resolved
    /\ \E r \in failures : r.trackId = "B"

\* C10: for every item that has a FailureEntry, resolved=false exactly when
\* the item's most recent outcome other than a skip was a failure, and
\* resolved=true exactly when it was a success.
C10_LedgerReflectsLastOutcome ==
    \A r \in failures :
        /\ (~r.resolved) <=> (lastOutcome[r.trackId] = "failure")
        /\ r.resolved <=> (lastOutcome[r.trackId] = "success")

\* The items a query selects, and the stored version of an item.
SelectedIds == {tracks[i].track_id : i \in DOMAIN tracks}

HasRecordAt(t, v) == \E aa \in analyses : aa.trackId = t /\ aa.analysisVersion = v

HasRecord(t) == \E aa \in analyses : aa.trackId = t

\* C11: with a limit of at least the number of catalog items select_pending
\* returns, once each, exactly the items that have a non-empty source path
\* and for which force is true, or no record exists, or the stored version
\* differs from the required one; and without force no call, whatever its
\* limit, returns an item that has a record of the required version.
C11_SelectPending ==
    (op = "select") =>
        /\ (args.limit >= Cardinality(Items)) =>
              /\ SelectedIds =
                    {t \in Items :
                        /\ Catalog[t].filePath # ""
                        /\ \/ args.force
                           \/ ~HasRecord(t)
                           \/ ~HasRecordAt(t, args.required_version)}
              /\ Len(tracks) = Cardinality(SelectedIds)
        /\ ~args.force =>
              \A t \in SelectedIds : ~HasRecordAt(t, args.required_version)

\* A query at the current version without force, over a store where A has a
\* current record, B a stale one and C none: it returns C and B.
C11_Witness ==
    /\ op = "select"
    /\ args.limit = Cardinality(Items)
    /\ ~args.force
    /\ args.required_version = Version
    /\ HasRecordAt("A", Version)
    /\ HasRecordAt("B", OldVersion)
    /\ ~HasRecord("C")
    /\ tracks = <<TrackForAnalysis("C", "/m/c"), TrackForAnalysis("B", "/m/b")>>

\* C12: for the work set A, B, C submitted in that order, where A succeeds,
\* the file of B is missing and the engine raises for C, the returned summary
\* has requested=3, processed=1, saved=1, failed=1, skipped=1 and errors equal
\* to the list [(B, "File not found"), (C, message)], in either execution mode
\* and for every completion order.
C12_ThreeItemScenario ==
    (/\ pc = "done"
     /\ args.track_ids = ScenarioIds
     /\ essentia
     /\ handled[1] = "saved"
     /\ ~cond[2].exists
     /\ cond[3].engine = "raise") =>
        summary = [requested |-> 3, processed |-> 1, saved |-> 1, failed |-> 1,
                   skipped |-> 1,
                   errors |-> << <<"B", FileNotFoundMsg>>, <<"C", ExtractionMsg>> >>]

\* The supplied ids that have a resolvable path, in order, and the set of
\* those that have none.
Resolvable(track_ids) == SelectSeq(track_ids, LAMBDA t : get_track_file_path(t) # None)

Dropped(track_ids) ==
    {track_ids[k] : k \in {j \in DOMAIN track_ids : get_track_file_path(track_ids[j]) = None}}

\* C13: in analyze_specific an id without a resolvable path is excluded before
\* the batch: requested is the number of supplied ids that have a path, only
\* items of the work set are counted, and a dropped id is not in the work set,
\* has no errors entry and no Failure Ledger or Result Store row.
C13_UnresolvableIdsDropped ==
    (op = "specific") =>
        /\ summary.requested = Len(Resolvable(args.track_ids))
        /\ Len(tracks) = summary.requested
        /\ summary.processed + summary.failed + summary.skipped
              = Cardinality({i \in DOMAIN handled : handled[i] # "none"})
        /\ \A t \in Dropped(args.track_ids) :
              /\ \A i \in DOMAIN tracks : tracks[i].track_id # t
              /\ \A k \in DOMAIN summary.errors : summary.errors[k][1] # t
              /\ RowsOf(failures, t) = {}
              /\ RowsOf(analyses, t) = {}

\* analyze_specific(["X", "B"]) returned: X has no row in tracks, B was saved.
C13_Witness ==
    /\ pc = "done"
    /\ op = "specific"
    /\ args.track_ids = <<"X", "B">>
    /\ summary.requested = 1
    /\ summary.saved = 1

\* C14: when the extraction engine dependency is unavailable, a run over a
\* non-empty work set aborts before any item is processed: no item is
\* attempted or classified, no FailureEntry is written and no BatchSummary is
\* returned.
C14_UnavailableEngineAbortsRun ==
    (~essentia /\ Len(tracks) > 0 /\ pc # "idle") =>
        /\ pc # "done"
        /\ \A i \in DOMAIN handled :
              /\ handled[i] = "none"
              /\ cond[i] = NoCond
              /\ recCalls[i] = 0

\* The step completes a task in worker process w.
WorkerDone(w) ==
    /\ w \in DOMAIN busy
    /\ w \in DOMAIN busy'
    /\ busy[w] # 0
    /\ busy'[w] = 0

\* C15: in a worker process the engine is constructed only while the process
\* runs a task; after any task of the process it has been constructed exactly
\* once, a task that finds the cached instance constructs nothing, and a task
\* of one process leaves the instance and the count of every other process
\* alone.
C15_EngineOncePerUnit ==
    [][(pool > 0 /\ pool' = pool) =>
          \A w \in 1..pool :
              /\ (built'[w] # built[w]) => WorkerDone(w)
              /\ WorkerDone(w) =>
                    /\ built'[w] = 1
                    /\ adapter[w] => built'[w] = built[w]
                    /\ \A v \in (1..pool) \ {w} :
                          built'[v] = built[v] /\ adapter'[v] = adapter[v]]_vars

\* C16: once engine construction has failed in a worker process, every later
\* task of that process ends in an error without another construction
\* attempt, and every item whose task ended in an error is counted as failed
\* with one record_failure call when the run returns.
C16_FailedConstructionNotRetried ==
    [][/\ \A w \in DOMAIN busy :
             (WorkerDone(w) /\ built[w] >= 1 /\ ~adapter[w]) =>
                 /\ results'[busy[w]].kind = "exc"
                 /\ built'[w] = built[w]
       /\ (pc' = "done" /\ ~essentia') =>
             \A i \in DOMAIN results' :
                 results'[i].kind = "exc" =>
                     handled'[i] = "failed" /\ recCalls'[i] = 1]_vars

\* The run submitted its items to a worker pool.
PoolCreated == Len(futures) > 0 /\ futures[1] # "none"

\* C17: whenever _process_tracks has returned or raised after creating a
\* worker pool, every submitted task has finished, no worker runs a task and
\* the orchestrator holds no pool (self._pool is None), also when a task
\* raised and when a store write of the coordinator raised.
C17_PoolDrainedAndReleased ==
    (pc \in {"done", "raised"} /\ PoolCreated) =>
        /\ pool = 0
        /\ AllFinished
        /\ \A w \in DOMAIN busy : busy[w] = 0

\* A parallel run raised out of a store write while the task of another item,
\* which ended in an exception, had not been handled.
C17_Witness ==
    /\ pc = "raised"
    /\ PoolCreated
    /\ \E i, j \in DOMAIN handled :
          /\ handled[i] = "aborted"
          /\ handled[j] = "none"
          /\ results[j].kind = "exc"

\* C18: in a parallel run a step of a worker process (taking a task, or
\* returning a record or an error) performs no store operation, and every
\* step that writes the Result Store or the Failure Ledger is the coordinator
\* handling exactly one item, so the writes of a run happen one at a time.
C18_WritesSerializedByCoordinator ==
    [][(PoolCreated /\ pc \in {"par", "closing"}) =>
          /\ (busy' # busy \/ futures' # futures \/ results' # results) =>
                (failures' = failures /\ analyses' = analyses /\ now' = now)
          /\ (failures' # failures \/ analyses' # analyses) =>
                /\ busy' = busy /\ futures' = futures /\ results' = results
                /\ \E i \in DOMAIN handled :
                      /\ HandledStep(i)
                      /\ \A j \in DOMAIN handled \ {i} : handled'[j] = handled[j]]_vars

\* The coordinator has written the ledger for a failed item of a retry run
\* while a worker process is still running the task of the other item.
C18_Witness ==
    /\ pc = "par"
    /\ op = "retry"
    /\ \E w \in DOMAIN busy : busy[w] # 0
    /\ \E i \in DOMAIN handled :
          /\ handled[i] = "failed"
          /\ recCalls[i] = 1
          /\ \E r \in RowsOf(failures, tracks[i].track_id) : r.retryCount = 1

\* C19: handling one item, in the sequential loop or for any completion order
\* of the parallel loop, leaves the AnalysisRecord and the FailureEntry of
\* every other item as they were.
C19_OtherItemsUntouched ==
    [][\A i \in DOMAIN handled :
          HandledStep(i) =>
              \A t \in Items \ {tracks[i].track_id} :
                  /\ RowsOf(failures', t) = RowsOf(failures, t)
                  /\ RowsOf(analyses', t) = RowsOf(analyses, t)]_vars

\* In a parallel run the second item was saved before the first was handled,
\* while the first item has an unresolved ledger entry and a record.
C19_Witness ==
    /\ pc = "par"
    /\ Len(tracks) = 2
    /\ tracks[1].track_id # tracks[2].track_id
    /\ handled[1] = "none"
    /\ handled[2] = "saved"
    /\ \E r \in RowsOf(failures, tracks[1].track_id) : ~r.resolved
    /\ RowsOf(failures, tracks[2].track_id) # {}

\* C20: whatever the interleaving of record_failure calls on two connections,
\* no call lets an error escape and no item has two entries; and when two
\* calls for the same item, both begun while the item had no entry, have
\* returned, the item has exactly one entry, unresolved, which the call that
\* lost the insert updated.
C20_ConcurrentRecordFailure ==
    /\ \A w \in Writers : conn[w].at # "escaped"
    /\ \A t \in Items : Cardinality(RowsOf(failures, t)) <= 1
    /\ \A w1, w2 \in Writers :
          (/\ w1 # w2
           /\ conn[w1].at = "done" /\ conn[w2].at = "done"
           /\ conn[w1].track_id = conn[w2].track_id
           /\ conn[w1].fresh /\ conn[w2].fresh) =>
              /\ Cardinality(RowsOf(failures, conn[w1].track_id)) = 1
              /\ \A r \in RowsOf(failures, conn[w1].track_id) :
                    /\ ~r.resolved
                    /\ r.retryCount = RetryCountDefault + 1
                    /\ r.error \in {conn[w1].error, conn[w2].error}

\* Two calls for A with different messages, both begun before A had an entry,
\* have returned: the first inserted, the second was turned into the update.
C20_Witness ==
    /\ conn[1].at = "done" /\ conn[2].at = "done"
    /\ conn[1].track_id = "A" /\ conn[2].track_id = "A"
    /\ conn[1].fresh /\ conn[2].fresh
    /\ conn[1].error # conn[2].error
    /\ \E r \in RowsOf(failures, "A") : r.retryCount = 1 /\ r.error = conn[2].error

\* The smaller of the configured max_workers and the host CPU count, an
\* unknown count (0) taken as 1.
Parallelism ==
    LET host == IF settings.cpus = 0 THEN 1 ELSE settings.cpus
    IN IF settings.max_workers <= host THEN settings.max_workers ELSE host

C22_SuppliedLimitCapsWorkSet ==
    (op \in {"pending", "retry"}) =>
        /\ summary.requested = Len(tracks)
        /\ summary.requested <= (IF args.limit = NoNum THEN BatchSize ELSE args.limit)

\* The ledger entry of an item that has one.
EntryOf(rows, t) == CHOOSE r \in rows : r.trackId = t

\* C23: list_unresolved_failures(limit) returns at most limit entries, all
\* unresolved and carrying their stored path, in ascending occurred_at, and
\* they are older than every unresolved entry with a path that it left out; so
\* a resolved entry is in no result until it fails again.  A record_failure
\* call leaves the entry of its item unresolved with an occurred_at later than
\* that of every other entry, hence behind them in the order.
C23_UnresolvedOldestFirst ==
    /\ [](op = "list_failed_tracks" =>
            /\ Len(tracks) <= args.limit
            /\ \A i \in DOMAIN tracks :
                  /\ RowsOf(failures, tracks[i].track_id) # {}
                  /\ ~EntryOf(failures, tracks[i].track_id).resolved
                  /\ EntryOf(failures, tracks[i].track_id).filePath = tracks[i].file_path
            /\ \A i, j \in DOMAIN tracks :
                  i < j => EntryOf(failures, tracks[i].track_id).occurredAt
                              < EntryOf(failures, tracks[j].track_id).occurredAt
            /\ \A r \in failures :
                  (/\ ~r.resolved
                   /\ TruthyStr(r.filePath)
                   /\ \A i \in DOMAIN tracks : tracks[i].track_id # r.trackId) =>
                      /\ Len(tracks) < args.limit => args.limit = 0
                            \/ \E q \in failures : ~TruthyStr(q.filePath)
                      /\ \A i \in DOMAIN tracks :
                            EntryOf(failures, tracks[i].track_id).occurredAt < r.occurredAt)
    /\ [][(op' = "record_failure" /\ calls' = calls + 1) =>
             LET t == tracks'[1].track_id
             IN /\ ~EntryOf(failures', t).resolved
                /\ \A q \in failures' :
                      q.trackId # t => q.occurredAt < EntryOf(failures', t).occurredAt]_vars

\* A failed before B and then failed again: the full list is B, then A.
C23_Witness ==
    /\ op = "list_failed_tracks"
    /\ args.limit = 2
    /\ Len(tracks) = 2
    /\ tracks[1].track_id = "B"
    /\ tracks[2].track_id = "A"
    /\ EntryOf(failures, "A").retryCount = 1
    /\ EntryOf(failures, "B").retryCount = 0

Unresolved(t) == \E r \in failures : r.trackId = t /\ ~r.resolved

InWorkSet(o, t) == op = o /\ \E i \in DOMAIN tracks : tracks[i].track_id = t

\* No item of the current run has been skipped for a missing file.
NoSkip == \A i \in DOMAIN handled : handled[i] # "skipped"

NeedsAnalysis(t) == Catalog[t].filePath # "" /\ ~HasRecordAt(t, Version)

\* No item of the current run has been skipped or has failed.
NoSkipOrFailure == \A i \in DOMAIN handled : handled[i] \notin {"skipped", "failed"}

\* The run has started and has handled nothing yet.
RunStarted ==
    /\ pc \in {"seq", "par"}
    /\ \A i \in DOMAIN handled : handled[i] = "none"

\* C25 as stated: under repeated analyze_pending runs with force=false, a
\* fixed catalog and a fixed limit, every item that has a source path and no
\* record at the required version is eventually in the work set of some run.
C25_PendingFairness ==
    \A t \in Items : NeedsAnalysis(t) ~> InWorkSet("pending", t)

\* C25 amended: every run selects the most recently updated items that have
\* a path and no record at the required version, up to the limit, so an item
\* among them is re-selected by every run until its version matches; and
\* every such item is eventually in the work set of some run provided the
\* runs do not go on failing or skipping the items they select for ever.
C25_PendingFairnessWithoutFailures ==
    /\ [](RunStarted /\ op = "pending" =>
            \A t \in Items :
                NeedsAnalysis(t) =>
                    \/ InWorkSet("pending", t)
                    \/ /\ Len(tracks) = args.limit
                       /\ \A i \in DOMAIN tracks :
                             /\ NeedsAnalysis(tracks[i].track_id)
                             /\ Catalog[tracks[i].track_id].updatedAt > Catalog[t].updatedAt)
    /\ ((<>[]NoSkipOrFailure) =>
          (\A t \in Items : NeedsAnalysis(t) ~> InWorkSet("pending", t)))

\* A, the least recently updated item, is selected once C and the stale B
\* have records at the required version, C after a failure.
C25_Witness ==
    /\ InWorkSet("pending", "A")
    /\ HasRecordAt("C", Version)
    /\ HasRecordAt("B", Version)
    /\ \E r \in failures : r.trackId = "C" /\ r.resolved

\* The record _store_payload writes for task i: the engine's payload after the
\* from_storage_payload / to_storage_payload trip, one column per field.
RecordWritten(i) ==
    AnalysisRow(to_storage_payload(from_storage_payload(to_storage_payload(
        analyze_file(cond'[i].engine, tracks[i].track_id, Version)))))

\* C26: an AnalysisRecord is created or replaced only by the step that saves
\* its item: a step that classifies an item as failed or skipped (or whose
\* store write raises) leaves every record unchanged, a step that handles no
\* item writes no record, and the saving step replaces the item's whole row,
\* every column from the one new record, and no other row.
C26_RecordWrittenOnlyOnSuccess ==
    [][/\ \A i \in DOMAIN handled :
             HandledStep(i) /\ handled'[i] # "saved" => analyses' = analyses
       /\ \A i \in DOMAIN handled :
             HandledStep(i) /\ handled'[i] = "saved" =>
                 analyses' = {r \in analyses : r.trackId # tracks[i].track_id}
                                 \cup {RecordWritten(i)}
       /\ (~\E i \in DOMAIN handled : HandledStep(i)) => analyses' = analyses]_vars

\* An item that had a record from an earlier run is listed twice in the work
\* set: its first task was saved and replaced the record, its second task
\* failed and the record is still there.
C26_Witness ==
    /\ Len(tracks) = 2
    /\ tracks[1].track_id = "C"
    /\ tracks[2].track_id = "C"
    /\ handled = <<"saved", "failed">>
    /\ stored["C"] = [engine |-> "ok1", times |-> 2]
    /\ \E r \in analyses : r.trackId = "C" /\ r.tempoBpm = 120

\* The tasks of the current run counted in class k.
TasksIn(k) == Cardinality({i \in DOMAIN handled : handled[i] = k})

\* The run returned its summary with every task classified.
Returned ==
    /\ pc = "done"
    /\ \A i \in DOMAIN tracks : handled[i] \in {"saved", "failed", "skipped"}

\* C27: when every engine call returns or raises and no store write raises, a
\* run over its work set eventually returns a BatchSummary; each task is
\* classified once, as saved, failed or skipped, its class never changes
\* afterwards, the counters count each classified task once, and none is left
\* unclassified, for every completion order.
C27_RunDrainsWorkSet ==
    /\ (pc \in {"seq", "par"}) ~> Returned
    /\ [](pc = "done" => Returned /\ summary.requested = Len(tracks))
    /\ [](/\ summary.saved = TasksIn("saved")
          /\ summary.failed = TasksIn("failed")
          /\ summary.skipped = TasksIn("skipped"))
    /\ [][\A i \in DOMAIN handled :
             handled[i] # "none" /\ pc' # "idle" => handled'[i] = handled[i]]_vars

\* A parallel run returned with A saved, B skipped and C failed, C having
\* completed before B.
C27_Witness ==
    /\ Returned
    /\ Len(built) = 2
    /\ handled = <<"saved", "skipped", "failed">>
    /\ Len(summary.errors) = 2
    /\ summary.errors[1][1] = "C"

\* The counters and the errors list agree, and every errors entry names an
\* item of the work set.
SummaryConsistent ==
    /\ Len(summary.errors) = summary.failed + summary.skipped
    /\ summary.saved <= summary.processed
    /\ summary.processed <= summary.requested
    /\ \A k \in DOMAIN summary.errors :
          \E i \in DOMAIN tracks : tracks[i].track_id = summary.errors[k][1]

\* No two tasks of the work set carry the same item id.
DistinctIds ==
    \A i, j \in DOMAIN tracks : tracks[i].track_id = tracks[j].track_id => i = j

\* No errors entry names the item of a task counted in saved.
SavedItemsHaveNoEntry ==
    \A i \in DOMAIN handled :
        handled[i] = "saved" =>
            \A k \in DOMAIN summary.errors :
                summary.errors[k][1] # tracks[i].track_id

\* C28 as stated: at every point of a run len(errors) = failed + skipped and
\* saved <= processed <= requested, every errors entry names an item of the
\* work set, and no errors entry names an item counted in saved.
C28_SummaryInvariants == SummaryConsistent /\ SavedItemsHaveNoEntry

\* C28 amended: at every point of a run len(errors) = failed + skipped and
\* saved <= processed <= requested, every errors entry names an item of the
\* work set, the handling that counts a task in saved appends no errors
\* entry, and when the ids of the work set are distinct no errors entry
\* names an item counted in saved.
C28_SummaryInvariantsPerTask ==
    /\ []SummaryConsistent
    /\ [](DistinctIds => SavedItemsHaveNoEntry)
    /\ [][\A i \in DOMAIN handled :
             HandledStep(i) /\ handled'[i] = "saved" =>
                 summary'.errors = summary.errors]_vars

\* The work set lists C twice: its first task was saved, its second failed
\* and added the only errors entry.
C28_Witness ==
    /\ Len(tracks) = 2
    /\ ~DistinctIds
    /\ handled = <<"saved", "failed">>
    /\ summary.saved = 1
    /\ summary.errors = <<<<"C", ExtractionMsg>>>>

\* C29: the coordinator persists the record the engine produced: the
\* payload survives from_storage_payload followed by to_storage_payload in
\* every descriptor field, absent, zero and empty values included, and the
\* row _store_payload writes carries the fields of the engine's payload.
C29_PayloadRoundTrip ==
    /\ to_storage_payload(from_storage_payload(results[1].payload)) = results[1].payload
    /\ op = "store_payload" => analyses = {AnalysisRow(results[1].payload)}

\* The tasks of the current run handled so far whose source file existed.
PresentHandled == {i \in DOMAIN handled : handled[i] # "none" /\ cond[i].exists}

\* C30: in sequential execution the engine is not cached across items: the
\* number of EssentiaAdapter constructions of the run equals the number of
\* handled items whose source file exists, each such item adds one, and an
\* item whose file is missing adds none.
C30_SequentialEnginePerItem ==
    (Len(tracks) > 0 /\ ~PoolCreated) => built = <<Cardinality(PresentHandled)>>

\* A sequential run over two items whose files both exist has returned after
\* two constructions.
C30_Witness ==
    /\ pc = "done"
    /\ ~PoolCreated
    /\ Len(tracks) = 2
    /\ PresentHandled = {1, 2}
    /\ essentia
    /\ built = <<2>>
====
